---- MODULE Spec2Model ----
(***************************************************************************)
(* The test orchestration engine of frontend-agent: TestOrchestrator       *)
(* (queueTest, processQueue, runTest, updateAnalytics, saveState,          *)
(* loadState, addScreenshot) driving the BrowserAutomation and             *)
(* VisualAnalysis backends.                                                *)
(*                                                                         *)
(* The repository holds two copies of the server, of the orchestrator and  *)
(* of the automation backend: the TypeScript sources (index.ts,            *)
(* src/orchestrator/index.ts, src/services/automation.ts) and compiled     *)
(* JavaScript that was built from a different revision (index.js,          *)
(* orchestrator/index.js, services/automation.js, services/visual.js).     *)
(* They differ in the POST /test route and in runTest, so the variable     *)
(* `build` fixes which copy a process runs, and the model follows each     *)
(* copy's own code.                                                        *)
(*                                                                         *)
(* Every request handler is an async function: it runs atomically between *)
(* two awaits.  pc[r] is the await (or the entry of a synchronous block)   *)
(* request r stands at; one action is one such atomic block.               *)
(***************************************************************************)
EXTENDS Integers, Sequences, FiniteSets, TLC

\* Number of HTTP requests (POST /test, POST /screenshot, GET /state) one
\* behaviour issues.
MaxReq == 2
\* Number of requests served by a process whose start is followed step by
\* step.
MaxStartReq == 1

\* Number of times the process is killed and started again.
MaxCrash == 1
\* Number of saveState calls whose mkdir or writeFile rejects.
MaxSaveFail == 1
\* Number of results updateAnalytics is applied to on its own, and the number
\* of visual issues one of them carries.
MaxRuns == 3
MaxIssues == 2

Reqs == 1..MaxReq
\* The elapsed times (Date.now() differences, in ms) a run can measure.
Durations == {1, 3}

VARIABLES
    build,      \* "ts" | "js": the copy of the orchestrator the process runs
    up,         \* TRUE while the process is alive
    system,     \* this.system, the in-memory snapshot
    file,       \* the state file: NoFile, Torn or the JSON text of a snapshot
    pc,         \* pc[r]: where request r stands
    loc,        \* loc[r]: the locals of request r's call chain
    nextId,     \* number of uuids handed out to tests so far
    enqueued,   \* history: test ids in the order queueTest appended them
    started,    \* history: test ids in the order processQueue moved them to running
    produced,   \* history: what every finished runTest produced
    saved,      \* history: the in-memory snapshot of the last save that completed
    lastLoad,   \* history: what the last loadState read and what it left in memory
    crashes,    \* number of times the process was killed
    fails,      \* number of saveState calls that have rejected
    boot        \* where initialize() stands while the server already listens

vars == <<build, up, system, file, pc, loc, nextId, enqueued, started, produced,
          saved, lastLoad, crashes, fails, boot>>

----------------------------------------------------------------------------
(* Values *)

\* JavaScript null (state.current.test when no test runs; JSON keeps it).
Null == [isNull |-> TRUE]

\* A file that does not exist, and a file a crash left partly written.
NoFile == [noFile |-> TRUE]
Torn == [torn |-> TRUE]

\* An object is a record of its properties that hold a value, with `undef` the
\* set of its own properties whose value is undefined (target.baseUrl and a
\* step's target, value, timeout when the request body omits them).
Has(o, k) == k \in DOMAIN o

\* A number that can be NaN: a quotient n/d kept in lowest terms, d = 0 for 0/0.
RECURSIVE Gcd(_, _)
Gcd(a, b) == IF b = 0 THEN a ELSE Gcd(b, a % b)

Quot(n, d) ==
    IF d = 0 THEN [n |-> 0, d |-> 0]
    ELSE LET g == Gcd(n, d) IN [n |-> n \div g, d |-> d \div g]

----------------------------------------------------------------------------
(* POST /test: the request bodies, validateTest, and the Test built from a   *)
(* body.                                                                     *)

StepOf(action, given) ==
    [action |-> action, undef |-> {"target", "value", "timeout"} \ DOMAIN given] @@ given

\* Bodies that have every field of the Test shape.  name, description,
\* target.url and the visual block are in every body and are not spelled out.
\* The steps of the last one lack what their actions need: a hover without
\* target, a type without value.
Bodies ==
    { [baseUrl |-> <<>>,
       steps |-> << [action |-> "click", target |-> "#go"] >>,
       assertions |-> [visual |-> FALSE, functional |-> FALSE, performance |-> FALSE]],
      [baseUrl |-> <<"base">>,
       steps |-> << [action |-> "click", target |-> "#go"],
                    [action |-> "type", target |-> "#in", value |-> "v"] >>,
       assertions |-> [visual |-> TRUE, functional |-> FALSE, performance |-> TRUE]],
      [baseUrl |-> <<>>,
       steps |-> << [action |-> "hover"],
                    [action |-> "type", target |-> "#in"] >>,
       assertions |-> [visual |-> FALSE, functional |-> FALSE, performance |-> FALSE]] }

\* A body without automation.assertions.
BadBodies ==
    { [baseUrl |-> <<>>,
       steps |-> << [action |-> "click", target |-> "#go"] >>] }

\* validateTest of the TypeScript server: of the fields a body of the model can
\* lack, it checks that automation.steps is an array and automation.assertions
\* an object.
validateTest(data) == Has(data, "steps") /\ Has(data, "assertions")

\* The Test the TypeScript route builds field by field from a validated body.
MakeTest(id, body) ==
    [id |-> id,
     target |-> IF body.baseUrl = <<>>
                THEN [url |-> "url", undef |-> {"baseUrl"}]
                ELSE [url |-> "url", baseUrl |-> body.baseUrl[1], undef |-> {}],
     steps |-> [i \in 1..Len(body.steps) |->
                   StepOf(body.steps[i].action,
                          [k \in DOMAIN body.steps[i] \ {"action"} |-> body.steps[i][k]])],
     assertions |-> [visual |-> body.assertions.visual,
                     functional |-> body.assertions.functional,
                     performance |-> body.assertions.performance]]

\* The Test of the compiled server: Object.assign({ id }, req.body), the body
\* as it came, no property holding undefined.
MakeTestJs(id, body) ==
    [k \in DOMAIN body \ {"baseUrl", "steps"} |-> body[k]] @@
    [id |-> id,
     target |-> IF body.baseUrl = <<>>
                THEN [url |-> "url", undef |-> {}]
                ELSE [url |-> "url", baseUrl |-> body.baseUrl[1], undef |-> {}],
     steps |-> [i \in 1..Len(body.steps) |-> body.steps[i] @@ [undef |-> {}]]]

----------------------------------------------------------------------------
(* The snapshot *)

\* analytics.passRate and analytics.averageDuration start at the number 0.
Zero == [n |-> 0, d |-> 1]

createInitialSystem ==
    [queue |-> [pending |-> <<>>, running |-> <<>>, completed |-> <<>>, failed |-> <<>>],
     concurrency |-> [maxParallel |-> 1, perBrowser |-> 1],
     execution |-> [timeouts |-> [visual |-> 30000, automation |-> 60000, total |-> 300000],
                    retries |-> [count |-> 3, backoff |-> "exponential"]],
     current |-> [phase |-> "setup", test |-> Null, screenshots |-> <<>>, results |-> <<>>],
     history |-> [tests |-> <<>>,
                  analytics |-> [totalRuns |-> 0, passRate |-> Zero,
                                 averageDuration |-> Zero, commonIssues |-> <<>>]]]

\* JSON.stringify leaves out a property whose value is undefined, so the text of
\* an object spells out only the properties that hold a value ...
JsonObject(o) == [k \in DOMAIN o \ {"undef"} |-> o[k]]
\* ... keeps null, and writes NaN as null.
JsonNumber(q) == IF q.d = 0 THEN Null ELSE q

JsonTest(t) ==
    [t EXCEPT !.target = JsonObject(@), !.steps = [i \in 1..Len(@) |-> JsonObject(@[i])]]

JsonTests(list) == [i \in 1..Len(list) |-> JsonTest(list[i])]

JsonTestOrNull(t) == IF t = Null THEN Null ELSE JsonTest(t)

\* JSON.stringify(this.system, null, 2): the text of the state file.
Stringify(sys) ==
    [sys EXCEPT
        !.queue = [pending |-> JsonTests(@.pending), running |-> JsonTests(@.running),
                   completed |-> JsonTests(@.completed), failed |-> JsonTests(@.failed)],
        !.current = [@ EXCEPT !.test = JsonTestOrNull(@)],
        !.history = [@ EXCEPT !.analytics =
                        [@ EXCEPT !.passRate = JsonNumber(@),
                                  !.averageDuration = JsonNumber(@)]]]

\* JSON.parse: the objects the text spells out; none of their properties holds
\* undefined.  A missing or partly written file does not parse.
Parses(f) == f # NoFile /\ f # Torn

ParseObject(j) == j @@ [undef |-> {}]

ParseTest(j) ==
    [j EXCEPT !.target = ParseObject(@), !.steps = [i \in 1..Len(@) |-> ParseObject(@[i])]]

ParseTests(list) == [i \in 1..Len(list) |-> ParseTest(list[i])]

ParseTestOrNull(j) == IF j = Null THEN Null ELSE ParseTest(j)

Parse(f) ==
    [f EXCEPT
        !.queue = [pending |-> ParseTests(@.pending), running |-> ParseTests(@.running),
                   completed |-> ParseTests(@.completed), failed |-> ParseTests(@.failed)],
        !.current = [@ EXCEPT !.test = ParseTestOrNull(@)]]

\* Two snapshots that read the same: every property read gives the same value
\* (a property holding undefined reads like a property that is not there).
ReadObject(o) == [o EXCEPT !.undef = {}]
ReadTest(t) == [t EXCEPT !.target = ReadObject(@), !.steps = [i \in 1..Len(@) |-> ReadObject(@[i])]]
ReadTests(list) == [i \in 1..Len(list) |-> ReadTest(list[i])]
ReadTestOrNull(t) == IF t = Null THEN Null ELSE ReadTest(t)
Read(sys) ==
    [sys EXCEPT
        !.queue = [pending |-> ReadTests(@.pending), running |-> ReadTests(@.running),
                   completed |-> ReadTests(@.completed), failed |-> ReadTests(@.failed)],
        !.current = [@ EXCEPT !.test = ReadTestOrNull(@)]]
SameSnapshot(a, b) == Read(a) = Read(b)

----------------------------------------------------------------------------
(* The backends *)

\* The error page.goto rejects with on each attempt.
NavError == <<"navigation error 1", "navigation error 2", "navigation error 3">>

\* What the three attempts of page.goto would do: the page answers from some
\* attempt on, or never.
Gotos ==
    { <<TRUE, TRUE, TRUE>>, <<FALSE, TRUE, TRUE>>, <<FALSE, FALSE, TRUE>>,
      <<FALSE, FALSE, FALSE>> }

\* A loop that gives up on the first failure.
FirstAttemptLast(attempt) == attempt = 0

\* `if (attempt === 2) throw err`
LastAttempt(attempt) == attempt = 2

\* The navigation loop of automation.ts executeStep, from `attempt` on:
\* goto[a] tells whether the a-th page.goto resolves.  The loop ends on the
\* first success or throws the error of the last attempt.
RECURSIVE Navigate(_, _)
Navigate(goto, attempt) ==
    IF attempt < 3
    THEN IF goto[attempt + 1] THEN [ok |-> TRUE, attempts |-> attempt + 1]
         ELSE IF LastAttempt(attempt)
              THEN [ok |-> FALSE, attempts |-> attempt + 1, error |-> NavError[attempt + 1]]
              ELSE Navigate(goto, attempt + 1)
    ELSE [ok |-> FALSE, attempts |-> attempt]

\* BrowserAutomation.executeStep of automation.ts after the navigation: the
\* switch over the action.  It resolves ("ok") or rejects with an error.
\* pageOk: the page did what was asked (the selector became visible, the click
\* or the typing went through).  hover and scroll have no case in the switch,
\* and wait only waits.
executeStepTs(step, pageOk) ==
    IF step.action = "click" /\ ~Has(step, "target")
        THEN "Target selector is required for click action"
    ELSE IF step.action = "type" /\ ~Has(step, "target")
        THEN "Target selector is required for type action"
    ELSE IF step.action = "type" /\ ~Has(step, "value")
        THEN "Value is required for type action"
    ELSE IF step.action \in {"click", "type"} /\ ~pageOk THEN "page error"
    ELSE "ok"

\* One call of automation.ts executeStep: the navigation, the switch when the
\* navigation succeeded, and page.close() in the finally.  out is "ok" or the
\* error the call rejects with; the rest is what the call did.
ExecuteStepTsCall(step, goto, pageOk) ==
    LET nav == Navigate(goto, 0) IN
    [out |-> IF Has(nav, "error") THEN nav.error ELSE executeStepTs(step, pageOk),
     goto |-> goto,
     attempts |-> nav.attempts,
     switched |-> ~Has(nav, "error"),
     closed |-> TRUE]

\* BrowserAutomation.executeStep of automation.js: resolves with a StepResult,
\* pass or fail (the error caught inside).
executeStepJs(step, pageOk, d) ==
    LET err ==
            IF step.action \in {"click", "hover", "scroll"} /\ ~Has(step, "target")
                THEN "Target required"
            ELSE IF step.action = "type" /\ ~(Has(step, "target") /\ Has(step, "value"))
                THEN "Target and value required for type action"
            ELSE IF ~pageOk THEN "page error"
            ELSE "ok"
    IN  IF err = "ok"
        THEN [status |-> "pass", action |-> step.action, duration |-> d]
        ELSE [status |-> "fail", action |-> step.action, duration |-> d, error |-> err]

\* The metrics bundle runTest starts the result with.
ZeroMetrics ==
    [performance |-> [fcp |-> 0, lcp |-> 0, cls |-> 0],
     console |-> [errors |-> <<>>, warnings |-> <<>>],
     network |-> [requests |-> 0, failures |-> 0,
                  timing |-> [dns |-> 0, tcp |-> 0, ttfb |-> 0]]]

\* A bundle collectMetrics measured on a page that loaded.
MeasuredMetrics ==
    [performance |-> [fcp |-> 1, lcp |-> 2, cls |-> 0],
     console |-> [errors |-> <<>>, warnings |-> <<>>],
     network |-> [requests |-> 1, failures |-> 0,
                  timing |-> [dns |-> 1, tcp |-> 1, ttfb |-> 1]]]

\* automation.ts collectMetrics, its catch: the defaults it returns on a failure
\* or on its 10 s timeout.
FailedMetrics ==
    [performance |-> [fcp |-> 0, lcp |-> 0, cls |-> 0],
     console |-> [errors |-> <<"Metrics collection failed">>, warnings |-> <<>>],
     network |-> [requests |-> 0, failures |-> 1,
                  timing |-> [dns |-> 0, tcp |-> 0, ttfb |-> 0]]]

\* What `await collectMetrics(url)` gives runTest: a bundle, or "throw".
\* automation.ts catches every failure after its browser check; automation.js
\* catches none.
collectMetricsOutcomes(b) ==
    IF b = "ts" THEN {MeasuredMetrics, FailedMetrics}
    ELSE {MeasuredMetrics, [throw |-> TRUE]}

\* VisualAnalysis.analyzeScreenshot: the placeholder analysis.
analyzeScreenshot ==
    [observations |-> <<"layout follows guidelines", "contrast meets WCAG">>,
     issues |-> <<>>,
     metrics |-> [accessibility |-> 90, designConsistency |-> 85, layoutAccuracy |-> 95]]

----------------------------------------------------------------------------
(* runTest's result and the analytics *)

\* The TestResult runTest starts from: index.ts starts with status error and
\* the placeholder analysis, index.js with status running and an empty one.
NewResult(b, id, test) ==
    [id |-> id, testId |-> test.id, duration |-> 0,
     status |-> IF b = "ts" THEN "error" ELSE "running",
     visualAnalysis |->
        IF b = "ts" THEN analyzeScreenshot
        ELSE [observations |-> <<>>, issues |-> <<>>,
              metrics |-> [accessibility |-> 0, designConsistency |-> 0,
                           layoutAccuracy |-> 0]],
     automationResults |-> [steps |-> <<>>, metrics |-> ZeroMetrics]]

RECURSIVE SumDurations(_)
SumDurations(results) ==
    IF results = <<>> THEN 0
    ELSE Head(results).duration + SumDurations(Tail(results))

\* A lookup that never finds the entry.
NeverSame(entry, description) == FALSE

\* commonIssues.find(i => i.type === issue.description)
SameIssue(entry, description) == entry.type = description

\* The loop over result.visualAnalysis.issues: count an issue under its exact
\* description, adding an entry when there is none.
RECURSIVE CountIssues(_, _)
CountIssues(common, issues) ==
    IF issues = <<>> THEN common
    ELSE LET d == Head(issues).description
             at == {i \in 1..Len(common) : SameIssue(common[i], d)}
         IN  CountIssues(
                IF at = {} THEN Append(common, [type |-> d, count |-> 1])
                ELSE LET i == CHOOSE j \in at : \A k \in at : j <= k
                     IN  [common EXCEPT ![i].count = @ + 1],
                Tail(issues))

\* An updateAnalytics that forgets the increment.
SameTotalRuns(n) == n

\* analytics.totalRuns++
NextTotalRuns(n) == n + 1

updateAnalytics(sys, result) ==
    LET a == sys.history.analytics
        totalRuns == NextTotalRuns(a.totalRuns)
        totalPassed == Len(sys.queue.completed)
    IN  [sys EXCEPT !.history.analytics =
            [totalRuns |-> totalRuns,
             passRate |-> Quot(totalPassed * 100, totalRuns),
             averageDuration |-> Quot(SumDurations(sys.current.results), totalRuns),
             commonIssues |-> CountIssues(a.commonIssues, result.visualAnalysis.issues)]]

\* index.js, the finally of runTest: the result joins the session results, the
\* test leaves `running` for `completed` or `failed`, the analytics are updated
\* and the scheduler is idle again.
\* A finally that forgets the splice.
KeepTest(list, id) == list

RemoveTest(list, id) ==
    LET at == {i \in 1..Len(list) : list[i].id = id}
    IN  IF at = {} THEN list
        ELSE LET i == CHOOSE j \in at : \A k \in at : j <= k
             IN  SubSeq(list, 1, i - 1) \o SubSeq(list, i + 1, Len(list))

\* A finally that resets the phase and leaves the test where it is.
FinallyResetsPhaseOnly(sys, test, result) ==
    [updateAnalytics(sys, result) EXCEPT !.current.phase = "setup"]

FinallyJs(sys, test, result) ==
    LET s1 == [sys EXCEPT !.current.results = Append(@, result)]
        s2 == [s1 EXCEPT !.queue.running = RemoveTest(@, test.id)]
        s3 == IF result.status = "pass"
              THEN [s2 EXCEPT !.queue.completed = Append(@, test)]
              ELSE [s2 EXCEPT !.queue.failed = Append(@, test)]
        s4 == updateAnalytics(s3, result)
    IN  [s4 EXCEPT !.current.phase = "setup", !.current.test = Null]

\* index.ts, the finally of runTest: the analytics are updated, nothing else.
FinallyTs(sys, test, result) == updateAnalytics(sys, result)

----------------------------------------------------------------------------
(* The process *)

\* The locals of a call chain.  Some of them are history: dirty, the chain has
\* changed the snapshot since saveState last serialized it on the chain's
\* behalf; metricsFailed, the run's metrics collection failed or timed out;
\* calls, the indices of the steps executeStep was called for in this run, in
\* the order of the calls; analyzed and collected, the number of times
\* analyzeScreenshot resolved and collectMetrics was called in this run; navs,
\* what each call of automation.ts executeStep did in this run.
NoLocals ==
    [test |-> Null, i |-> 0, result |-> Null, threw |-> FALSE,
     mem |-> Null, cont |-> "none", dirty |-> FALSE, reply |-> Null,
     metricsFailed |-> FALSE, calls |-> <<>>, analyzed |-> 0, collected |-> 0,
     navs |-> <<>>]

Init ==
    /\ build \in {"ts", "js"}
    /\ up = TRUE
    /\ system = createInitialSystem
    /\ file = Stringify(createInitialSystem)
    /\ pc = [r \in Reqs |-> "idle"]
    /\ loc = [r \in Reqs |-> NoLocals]
    /\ nextId = 0
    /\ enqueued = <<>>
    /\ started = <<>>
    /\ produced = <<>>
    /\ saved = createInitialSystem
    /\ lastLoad = Null
    /\ crashes = 0
    /\ fails = 0
    /\ boot = [stage |-> "none"]

\* The process has not been started yet and there is no state file.
InitCold ==
    /\ build \in {"ts", "js"}
    /\ up = FALSE
    /\ system = createInitialSystem
    /\ file = NoFile
    /\ pc = [r \in Reqs |-> "idle"]
    /\ loc = [r \in Reqs |-> NoLocals]
    /\ nextId = 0
    /\ enqueued = <<>>
    /\ started = <<>>
    /\ produced = <<>>
    /\ saved = createInitialSystem
    /\ lastLoad = Null
    /\ crashes = 0
    /\ fails = 0
    /\ boot = [stage |-> "none"]

hist == <<enqueued, started, produced>>
process == <<build, up, crashes, lastLoad, fails, boot>>

\* Requests are served in the order they arrive.
Arrives(r) ==
    /\ up /\ pc[r] = "idle"
    /\ (IF r = 1 THEN TRUE ELSE pc[r - 1] # "idle")
    /\ (boot.stage = "none" \/ r <= MaxStartReq)

\* A caller that goes on without saving.
SkipSave(r, cont, l) ==
    /\ pc' = [pc EXCEPT ![r] = cont]
    /\ loc' = [loc EXCEPT ![r] = l]

\* `await this.saveState()`: the caller waits for mkdir, then for writeFile, and
\* goes on at `cont`.
AwaitSave(r, cont, l) ==
    /\ pc' = [pc EXCEPT ![r] = "mkdir"]
    /\ loc' = [loc EXCEPT ![r] = [l EXCEPT !.cont = cont]]

\* saveState once mkdir has resolved: the snapshot is serialized now (mem is
\* the snapshot the text is made of), and writeFile is called with the text.
SaveMkdir(r) ==
    /\ up /\ pc[r] = "mkdir"
    /\ pc' = [pc EXCEPT ![r] = "write"]
    /\ loc' = [loc EXCEPT ![r].mem = system, ![r].dirty = FALSE]
    /\ UNCHANGED <<system, file, nextId, saved, hist, process>>

\* writeFile has resolved: the file holds the text, and the caller goes on.
SaveWrite(r) ==
    /\ up /\ pc[r] = "write"
    /\ file' = Stringify(loc[r].mem)
    /\ saved' = loc[r].mem
    /\ pc' = [pc EXCEPT ![r] = loc[r].cont]
    /\ loc' = [loc EXCEPT ![r].mem = Null, ![r].cont = "none"]
    /\ UNCHANGED <<system, nextId, hist, process>>

\* An error handler that logs the rejection and lets the caller go on, the way
\* the one on initialize() does.
Swallows(r, l) ==
    /\ pc' = [pc EXCEPT ![r] = l.cont]
    /\ loc' = [loc EXCEPT ![r] = [l EXCEPT !.mem = Null, !.cont = "none"]]

\* saveState rejects: queueTest, processQueue, runTest's finally and
\* addScreenshot await it outside any try, so the rejection leaves the whole
\* call chain and reaches the catch of the route, which answers 500.
Rejects(r, l) ==
    /\ pc' = [pc EXCEPT ![r] = "replied500"]
    /\ loc' = [loc EXCEPT ![r] = [NoLocals EXCEPT !.dirty = l.dirty]]

\* mkdir or writeFile rejects.  A writeFile that rejects leaves the file as it
\* was or partly written.
SaveFails(r) ==
    /\ up /\ pc[r] \in {"mkdir", "write"}
    /\ fails < MaxSaveFail
    /\ fails' = fails + 1
    /\ file' \in {file} \cup (IF pc[r] = "write" THEN {Torn} ELSE {})
    /\ Rejects(r, loc[r])
    /\ UNCHANGED <<build, up, crashes, lastLoad, system, nextId, saved, hist, boot>>

\* POST /test of the TypeScript server with a body validateTest refuses: the
\* route answers 400 and calls nothing.
RejectsTest(r) ==
    /\ Arrives(r) /\ build = "ts"
    /\ \E body \in Bodies \cup BadBodies : ~validateTest(body)
    /\ pc' = [pc EXCEPT ![r] = "replied400"]
    /\ UNCHANGED <<system, file, loc, nextId, saved, hist, process>>

\* POST /test: the route builds the Test under a fresh id (the TypeScript
\* server from a validated body, the compiled one from any body) and calls
\* queueTest, which appends it to `pending` and awaits saveState.
queueTest(r) ==
    /\ Arrives(r)
    /\ \E body \in Bodies \cup BadBodies :
        LET test == IF build = "ts" THEN MakeTest(nextId + 1, body)
                    ELSE MakeTestJs(nextId + 1, body) IN
        /\ build = "ts" => validateTest(body)
        /\ system' = [system EXCEPT !.queue.pending = Append(@, test)]
        /\ enqueued' = Append(enqueued, test.id)
        /\ nextId' = nextId + 1
        /\ AwaitSave(r, "processQueue", [loc[r] EXCEPT !.dirty = TRUE])
    /\ UNCHANGED <<file, saved, started, produced, process>>

\* POST /screenshot: the request bodies, one without id and timestamp and one
\* that brings its own.
ScreenshotBodies ==
    { [testId |-> 1],
      [testId |-> 1, id |-> [by |-> "client"], timestamp |-> [by |-> "client"]] }

\* The Screenshot the TypeScript route builds: { id: uuidv4(), ...req.body },
\* the properties of the body over the fresh id.
MakeScreenshot(r, body) == body @@ [id |-> [by |-> "server", n |-> r]]

\* The Screenshot of the compiled route: the same, then timestamp: Date.now()
\* over whatever the body had.
MakeScreenshotJs(r, body) == [timestamp |-> [by |-> "server"]] @@ MakeScreenshot(r, body)

\* POST /screenshot: addScreenshot appends the screenshot and awaits saveState.
addScreenshot(r) ==
    /\ Arrives(r)
    /\ \E body \in ScreenshotBodies :
        system' = [system EXCEPT !.current.screenshots =
                    Append(@, IF build = "ts" THEN MakeScreenshot(r, body)
                              ELSE MakeScreenshotJs(r, body))]
    /\ AwaitSave(r, "done", [loc[r] EXCEPT !.dirty = TRUE])
    /\ UNCHANGED <<file, nextId, saved, hist, process>>

\* A getSystemState that hands out a newly constructed snapshot.
FreshSystemState(sys) == createInitialSystem

\* getSystemState returns this.system itself, not a copy.
getSystemState(sys) == sys

\* GET /state: the route calls getSystemState and awaits the promise.
GetState(r) ==
    /\ Arrives(r)
    /\ pc' = [pc EXCEPT ![r] = "state"]
    /\ UNCHANGED <<system, file, loc, nextId, saved, hist, process>>

\* GET /state after the await: res.json serializes the object it was handed,
\* as that object is now.
GetStateReplies(r) ==
    /\ up /\ pc[r] = "state"
    /\ pc' = [pc EXCEPT ![r] = "done"]
    /\ loc' = [loc EXCEPT ![r].reply = Stringify(getSystemState(system))]
    /\ UNCHANGED <<system, file, nextId, saved, hist, process>>

\* A processQueue without its phase guard.
IdleAlways(sys) == TRUE

\* processQueue's guard: only phase setup lets a test be taken.
Idle(sys) == sys.current.phase = "setup"

\* pending.pop() in place of pending.shift(): the last test leaves the list.
Pop(pending) ==
    [test |-> pending[Len(pending)], rest |-> SubSeq(pending, 1, Len(pending) - 1)]

\* pending[0] in place of pending.shift(): the head stays in the list.
Peek(pending) == [test |-> Head(pending), rest |-> pending]

\* pending.shift(): the head leaves the list.
Shift(pending) == [test |-> Head(pending), rest |-> Tail(pending)]

\* processQueue is called from queueTest ("processQueue") and from the finally
\* of index.js's runTest ("drain").
AtProcessQueue(p) == p \in {"processQueue", "drain"}

\* processQueue: returns when a test is running or none is pending; else moves
\* the head of `pending` to `running`, awaits saveState and then runTest.
processQueue(r) ==
    /\ up /\ AtProcessQueue(pc[r])
    /\ \/ /\ ~Idle(system)
          /\ pc' = [pc EXCEPT ![r] = "done"]
          /\ UNCHANGED <<system, loc, started>>
       \/ /\ Idle(system)
          /\ system.queue.pending = <<>>
          /\ pc' = [pc EXCEPT ![r] = "done"]
          /\ UNCHANGED <<system, loc, started>>
       \/ /\ Idle(system)
          /\ system.queue.pending # <<>>
          /\ LET nextTest == Shift(system.queue.pending).test IN
             /\ system' = [system EXCEPT
                    !.queue.pending = Shift(system.queue.pending).rest,
                    !.current.phase = "running",
                    !.current.test = nextTest,
                    !.queue.running = Append(@, nextTest)]
             /\ started' = Append(started, nextTest.id)
             /\ AwaitSave(r, "runTest", [loc[r] EXCEPT !.test = nextTest, !.dirty = TRUE])
    /\ UNCHANGED <<file, nextId, saved, enqueued, produced, process>>

----------------------------------------------------------------------------
(* runTest *)

Steps(l) == l.test.steps

\* Date.now() - stepStartTime: the time one step took.  No code reads a
\* StepResult's duration, and the model gives every step the same one.
StepDuration == 0

\* A catch that leaves the status as it was.
CaughtUnset(r, l) ==
    /\ pc' = [pc EXCEPT ![r] = "finally"]
    /\ loc' = [loc EXCEPT ![r] = l]

\* The catch of runTest: whatever was thrown inside the try, status fail.
Caught(r, l) ==
    /\ pc' = [pc EXCEPT ![r] = "finally"]
    /\ loc' = [loc EXCEPT ![r] = [l EXCEPT !.result.status = "fail"]]

\* An end of the loop that collects the metrics of every test.
AlwaysMetrics(r, l) ==
    /\ pc' = [pc EXCEPT ![r] = "metrics"]
    /\ loc' = [loc EXCEPT ![r] = [l EXCEPT !.collected = @ + 1]]

\* The end of the try block's loop: metrics when the test asks for them, then
\* status pass.  Reading a flag of assertions that are not there is a
\* TypeError, thrown into the catch.
AfterSteps(r, l) ==
    IF ~Has(l.test, "assertions") THEN Caught(r, [l EXCEPT !.threw = TRUE])
    ELSE IF l.test.assertions.performance
    THEN /\ pc' = [pc EXCEPT ![r] = "metrics"]
         /\ loc' = [loc EXCEPT ![r] = [l EXCEPT !.collected = @ + 1]]
    ELSE /\ pc' = [pc EXCEPT ![r] = "finally"]
         /\ loc' = [loc EXCEPT ![r] = [l EXCEPT !.result.status = "pass"]]

\* A loop that never advances: it calls executeStep for the first step once
\* per step of the list.
FirstStepAgain(r, l) ==
    IF Len(l.result.automationResults.steps) < Len(Steps(l))
    THEN /\ pc' = [pc EXCEPT ![r] = "step"]
         /\ loc' = [loc EXCEPT ![r] = [l EXCEPT !.i = 1, !.calls = Append(@, 1)]]
    ELSE AfterSteps(r, l)

\* The loop goes to its next step and calls executeStep for it, or ends.
NextStep(r, l) ==
    IF l.i < Len(Steps(l))
    THEN /\ pc' = [pc EXCEPT ![r] = "step"]
         /\ loc' = [loc EXCEPT ![r] = [l EXCEPT !.i = @ + 1, !.calls = Append(@, l.i + 1)]]
    ELSE AfterSteps(r, l)

\* A loop that records the failed step and goes on with the next one.
StepFailureIgnored(r, l) == NextStep(r, l)

\* `throw new Error(\`Step failed: ...\`)` once the failed StepResult is
\* recorded: the loop is left for the catch of runTest.
StepFailed(r, l) == Caught(r, l)

\* runTest starts: the result is created and the first step is called.
runTest(r) ==
    /\ up /\ pc[r] = "runTest"
    /\ NextStep(r, [loc[r] EXCEPT
            !.result = NewResult(build, <<"result", loc[r].test.id>>, loc[r].test),
            !.i = 0, !.threw = FALSE, !.calls = <<>>, !.analyzed = 0, !.collected = 0,
            !.navs = <<>>])
    /\ UNCHANGED <<system, file, nextId, saved, hist, process>>

\* index.ts: `await executeStep(step, url)` resolved or rejected; a rejection is
\* recorded as a failed StepResult and rethrown into the outer catch.
StepReturnsTs(r) ==
    /\ up /\ pc[r] = "step" /\ build = "ts"
    /\ \E goto \in Gotos, pageOk \in BOOLEAN :
        LET step == Steps(loc[r])[loc[r].i]
            d == StepDuration
            call == ExecuteStepTsCall(step, goto, pageOk)
            l == [loc[r] EXCEPT !.navs = Append(@, call)]
        IN  IF call.out = "ok"
            THEN NextStep(r, [l EXCEPT !.result.automationResults.steps =
                    Append(@, [status |-> "pass", action |-> step.action, duration |-> d])])
            ELSE StepFailed(r, [l EXCEPT !.result.automationResults.steps =
                    Append(@, [status |-> "fail", action |-> step.action, duration |-> d,
                               error |-> call.out])])
    /\ UNCHANGED <<system, file, nextId, saved, hist, process>>

\* index.js: `yield executeStep(step)` resolved with a StepResult, which is
\* recorded; a failed one is thrown into the catch, a passed one is followed by
\* the screenshot and its analysis when the test asserts visuals (a TypeError
\* when the test has no assertions).
StepReturnsJs(r) ==
    /\ up /\ pc[r] = "step" /\ build = "js"
    /\ \E pageOk \in BOOLEAN :
        LET step == Steps(loc[r])[loc[r].i]
            stepResult == executeStepJs(step, pageOk, StepDuration)
            l == [loc[r] EXCEPT !.result.automationResults.steps = Append(@, stepResult)]
        IN  IF stepResult.status = "fail" THEN StepFailed(r, l)
            ELSE IF ~Has(l.test, "assertions") THEN Caught(r, [l EXCEPT !.threw = TRUE])
            ELSE IF l.test.assertions.visual
            THEN /\ pc' = [pc EXCEPT ![r] = "visual"]
                 /\ loc' = [loc EXCEPT ![r] = l]
            ELSE NextStep(r, l)
    /\ UNCHANGED <<system, file, nextId, saved, hist, process>>

\* index.js: captureScreenshot, saveScreenshot and analyzeScreenshot, awaited one
\* after the other, none touching the snapshot: either all three resolve and
\* the analysis replaces result.visualAnalysis, or one rejects into the catch.
VisualReturns(r) ==
    /\ up /\ pc[r] = "visual"
    /\ \/ NextStep(r, [loc[r] EXCEPT !.result.visualAnalysis = analyzeScreenshot,
                                      !.analyzed = @ + 1])
       \/ Caught(r, [loc[r] EXCEPT !.threw = TRUE])
    /\ UNCHANGED <<system, file, nextId, saved, hist, process>>

\* `await collectMetrics(url)` resolved with a bundle, which becomes the
\* result's metrics before status pass, or rejected into the catch.
MetricsReturn(r) ==
    /\ up /\ pc[r] = "metrics"
    /\ \E out \in collectMetricsOutcomes(build) :
        IF Has(out, "throw")
        THEN Caught(r, [loc[r] EXCEPT !.threw = TRUE, !.metricsFailed = TRUE])
        ELSE /\ pc' = [pc EXCEPT ![r] = "finally"]
             /\ loc' = [loc EXCEPT ![r] = [@ EXCEPT
                            !.result.automationResults.metrics = out,
                            !.result.status = "pass",
                            !.metricsFailed = (out = FailedMetrics)]]
    /\ UNCHANGED <<system, file, nextId, saved, hist, process>>

\* A backend call that never settles: the promise runTest awaits stays pending.
\* runTest awaits executeStep, captureScreenshot and collectMetrics directly,
\* with no timer of its own; execution.timeouts is read nowhere.
Hangs(r) ==
    /\ up /\ pc[r] \in {"step", "visual", "metrics"}
    /\ pc' = [pc EXCEPT ![r] = "hung"]
    /\ UNCHANGED <<system, file, loc, nextId, saved, hist, process>>

\* What a finished run is remembered by.
Produced(l, result) ==
    [test |-> l.test.id, steps |-> l.test.steps, result |-> result, threw |-> l.threw,
     metricsFailed |-> l.metricsFailed, calls |-> l.calls,
     analyzed |-> l.analyzed, collected |-> l.collected, navs |-> l.navs,
     asserts |-> IF Has(l.test, "assertions") THEN l.test.assertions
                 ELSE [visual |-> FALSE, functional |-> FALSE, performance |-> FALSE]]

\* index.ts, finally: the duration is set, updateAnalytics runs, and runTest,
\* processQueue and queueTest return.
FinallyReturnsTs(r) ==
    /\ up /\ pc[r] = "finally" /\ build = "ts"
    /\ \E d \in Durations :
        LET result == [loc[r].result EXCEPT !.duration = d] IN
        /\ system' = FinallyTs(system, loc[r].test, result)
        /\ produced' = Append(produced, Produced(loc[r], result))
    /\ pc' = [pc EXCEPT ![r] = "done"]
    /\ loc' = [loc EXCEPT ![r] = [NoLocals EXCEPT !.dirty = TRUE]]
    /\ UNCHANGED <<file, nextId, saved, enqueued, started, process>>

\* index.js, finally: the bookkeeping, then `yield saveState()` and
\* `yield processQueue()` for the next pending test.
FinallyReturnsJs(r) ==
    /\ up /\ pc[r] = "finally" /\ build = "js"
    /\ \E d \in Durations :
        LET result == [loc[r].result EXCEPT !.duration = d] IN
        /\ system' = FinallyJs(system, loc[r].test, result)
        /\ produced' = Append(produced, Produced(loc[r], result))
    /\ AwaitSave(r, "drain", [NoLocals EXCEPT !.dirty = TRUE])
    /\ UNCHANGED <<file, nextId, saved, enqueued, started, process>>

----------------------------------------------------------------------------
(* The process is killed, and started again *)

Writing == {r \in Reqs : pc[r] = "write"}

\* The process dies.  Every handler dies with it; a writeFile that was under
\* way leaves the file as it was or partly written.
Crash ==
    /\ up /\ crashes < MaxCrash
    /\ up' = FALSE
    /\ crashes' = crashes + 1
    /\ file' \in {file} \cup (IF Writing = {} THEN {} ELSE {Torn})
    /\ pc' = [r \in Reqs |-> IF pc[r] = "idle" THEN "idle" ELSE "done"]
    /\ loc' = [r \in Reqs |-> NoLocals]
    /\ UNCHANGED <<build, system, nextId, saved, lastLoad, hist, fails, boot>>

\* new TestOrchestrator() and initialize(): loadState reads and parses the
\* file into this.system; when that throws, the initial snapshot stays and is
\* saved.
loadState(f) == IF Parses(f) THEN Parse(f) ELSE createInitialSystem

\* A catch that only logs the error.
FileKept(f) == f

\* The file once loadState has returned: its catch calls saveState, which
\* writes the snapshot in memory, the constructor's.
FileAfterLoad(f) == IF Parses(f) THEN f ELSE Stringify(createInitialSystem)

Restart ==
    /\ ~up
    /\ up' = TRUE
    /\ system' = loadState(file)
    /\ file' = FileAfterLoad(file)
    /\ saved' = IF Parses(file) THEN saved ELSE createInitialSystem
    /\ lastLoad' = [read |-> file, got |-> system', wanted |-> saved, wrote |-> file']
    /\ UNCHANGED <<build, pc, loc, nextId, crashes, hist, fails, boot>>

\* The process is not running and an earlier life left a state file holding
\* the default snapshot.
InitStopped ==
    /\ build \in {"ts", "js"}
    /\ up = FALSE
    /\ system = createInitialSystem
    /\ file = Stringify(createInitialSystem)
    /\ pc = [r \in Reqs |-> "idle"]
    /\ loc = [r \in Reqs |-> NoLocals]
    /\ nextId = 0
    /\ enqueued = <<>>
    /\ started = <<>>
    /\ produced = <<>>
    /\ saved = createInitialSystem
    /\ lastLoad = Null
    /\ crashes = 0
    /\ fails = 0
    /\ boot = [stage |-> "none"]

\* The server module is loaded: new TestOrchestrator() builds the initial
\* snapshot, initialize() is called and not awaited, and app.listen() lets
\* requests in while initialize() launches the browser and reads the file.
Starts ==
    /\ ~up /\ boot.stage = "none"
    /\ up' = TRUE
    /\ system' = createInitialSystem
    /\ boot' = [stage |-> "reading"]
    /\ UNCHANGED <<build, file, pc, loc, nextId, saved, lastLoad, crashes, hist, fails>>

\* loadState's readFile gets the text the file holds at that moment, or
\* fails.
ReadFileDone ==
    /\ up /\ boot.stage = "reading"
    /\ boot' = [stage |-> "read", text |-> file]
    /\ UNCHANGED <<build, up, system, file, pc, loc, nextId, saved, lastLoad,
                   crashes, hist, fails>>

\* loadState goes on after its await: this.system = JSON.parse(data) replaces
\* the snapshot in memory; when readFile or the parse threw, the catch saves
\* the snapshot that is in memory now.
LoadStateAssigns ==
    /\ up /\ boot.stage = "read"
    /\ system' = IF Parses(boot.text) THEN Parse(boot.text) ELSE system
    /\ file' = IF Parses(boot.text) THEN file ELSE Stringify(system)
    /\ saved' = IF Parses(boot.text) THEN saved ELSE system
    /\ lastLoad' = [read |-> boot.text, got |-> system', wanted |-> saved, wrote |-> file']
    /\ boot' = [stage |-> "loaded"]
    /\ UNCHANGED <<build, up, pc, loc, nextId, crashes, hist, fails>>

----------------------------------------------------------------------------

Step(r) ==
    \/ queueTest(r) \/ addScreenshot(r)
    \/ RejectsTest(r) \/ GetState(r) \/ GetStateReplies(r)
    \/ SaveMkdir(r) \/ SaveWrite(r)
    \/ processQueue(r) \/ runTest(r)
    \/ StepReturnsTs(r) \/ StepReturnsJs(r) \/ VisualReturns(r) \/ MetricsReturn(r)
    \/ FinallyReturnsTs(r) \/ FinallyReturnsJs(r)

Next == \E r \in Reqs : Step(r)

Spec == Init /\ [][Next]_vars

NextCrash == Next \/ Crash \/ Restart

CrashSpec == (Init \/ InitCold) /\ [][NextCrash]_vars

NextStart == Next \/ Starts \/ ReadFileDone \/ LoadStateAssigns

StartSpec == (InitCold \/ InitStopped) /\ [][NextStart]_vars

\* The visual issues a result can carry: both backends' analyses are
\* placeholders without issues, so updateAnalytics is also applied on its own,
\* to results whose issue lists are drawn from these.
Descriptions == {"low contrast", "overlap"}

IssueLists ==
    UNION {[1..n -> {[description |-> d, severity |-> "minor"] : d \in Descriptions}] :
            n \in 0..MaxIssues}

\* updateAnalytics(result), applied to one more result.
UpdatesAnalytics ==
    /\ Len(produced) < MaxRuns
    /\ \E issues \in IssueLists :
        LET result == [NewResult(build, <<"result", Len(produced) + 1>>, [id |-> 0])
                        EXCEPT !.visualAnalysis.issues = issues]
        IN  /\ system' = updateAnalytics(system, result)
            /\ produced' = Append(produced, [test |-> 0, result |-> result])
    /\ UNCHANGED <<file, pc, loc, nextId, saved, enqueued, started, process>>

AnalyticsSpec == Init /\ [][UpdatesAnalytics]_vars

NextSaveFail == Next \/ \E r \in Reqs : SaveFails(r)

SaveFailSpec == Init /\ [][NextSaveFail]_vars

\* A request in flight goes on whenever it can: the event loop runs every
\* continuation whose await has resolved.  Whether a request arrives is up to
\* the clients.
Progress(r) ==
    \/ SaveMkdir(r) \/ SaveWrite(r) \/ GetStateReplies(r)
    \/ processQueue(r) \/ runTest(r)
    \/ StepReturnsTs(r) \/ StepReturnsJs(r) \/ VisualReturns(r) \/ MetricsReturn(r)
    \/ FinallyReturnsTs(r) \/ FinallyReturnsJs(r)

LiveSpec == Init /\ [][Next]_vars /\ \A r \in Reqs : WF_vars(Progress(r))

----------------------------------------------------------------------------
(* Properties *)

Range(s) == {s[i] : i \in 1..Len(s)}
Ids(list) == {list[i].id : i \in 1..Len(list)}
IsPrefix(s, t) == Len(s) <= Len(t) /\ SubSeq(t, 1, Len(s)) = s

\* Request r is inside a run: its test is in `running` and runTest is about to
\* start or has not finished.
InRun(r) ==
    \/ pc[r] \in {"runTest", "step", "visual", "metrics", "finally"}
    \/ pc[r] \in {"mkdir", "write"} /\ loc[r].cont = "runTest"

Quiet == \A r \in Reqs : pc[r] \in {"idle", "done", "replied400", "replied500"}

\* C1: tests start execution in exactly the order queueTest appended them to
\* `pending`: the tests started so far are the first ones enqueued, in order.
C1_Fifo == IsPrefix(started, enqueued)

\* Two tests were enqueued and both were started.
C1_Witness == Len(started) = 2 /\ Len(enqueued) = 2

\* C2: single-flight: at most one request is inside a run and `running` never
\* holds a second test, however the queueTest calls interleave.
C2_SingleFlight ==
    /\ Cardinality({r \in Reqs : InRun(r)}) <= 1
    /\ Len(system.queue.running) <= 1

\* A run is under way while another queueTest call, its test pending, has
\* reached processQueue.
C2_Witness ==
    \E r, q \in Reqs :
        /\ pc[r] \in {"step", "visual", "metrics"}
        /\ pc[q] = "processQueue"
        /\ system.queue.pending # <<>>

\* How many of the four lists' entries carry the id.
Occurrences(queue, id) ==
    Cardinality({<<n, i>> \in {"pending", "running", "completed", "failed"} \X (1..MaxReq) :
                    i <= Len(queue[n]) /\ queue[n][i].id = id})

AllStepsPass(result) ==
    \A i \in 1..Len(result.automationResults.steps) :
        result.automationResults.steps[i].status = "pass"

\* C4: every TestResult runTest produces has status pass if and only if every
\* StepResult in it has status pass.
C4_PassIffStepsPass ==
    \A i \in 1..Len(produced) :
        produced[i].result.status = "pass" <=> AllStepsPass(produced[i].result)

\* C5: the finally of a run leaves the test out of `running` and in `completed`
\* (status pass) or `failed` (otherwise), the result in the session results,
\* phase setup and no current test.
C5_FinallyLeaves ==
    [][\A r \in Reqs :
        (pc[r] = "finally" /\ pc'[r] # "finally" /\ up') =>
            LET id == loc[r].test.id
                result == produced'[Len(produced')].result
                queue == system'.queue
            IN  /\ id \notin Ids(queue.running)
                /\ IF result.status = "pass"
                   THEN id \in Ids(queue.completed) /\ id \notin Ids(queue.failed)
                   ELSE id \in Ids(queue.failed) /\ id \notin Ids(queue.completed)
                /\ result \in Range(system'.current.results)
                /\ system'.current.phase = "setup"
                /\ system'.current.test = Null]_vars

\* C6: every test queueTest accepted is eventually in `completed` or `failed`.
C6_EveryTestFinishes ==
    \A id \in 1..MaxReq :
        (id \in Range(enqueued)) ~>
            (id \in Ids(system.queue.completed) \cup Ids(system.queue.failed))

\* C7: a failed run stops nothing: once no request is in flight, the scheduler
\* is back in phase setup and no test is left pending.
C7_ErrorContained ==
    (Quiet /\ \E i \in 1..Len(produced) : produced[i].result.status = "fail") =>
        (system.current.phase = "setup" /\ system.queue.pending = <<>>)

Passes == Cardinality({i \in 1..Len(produced) : produced[i].result.status = "pass"})

\* C8: after N finished runs of which P passed, analytics.passRate is
\* (P / N) * 100.
C8_PassRate ==
    produced # <<>> =>
        system.history.analytics.passRate = Quot(Passes * 100, Len(produced))

\* C9: a snapshot that was saved and is loaded again by a new process reads
\* the same as the snapshot in memory when it was saved.
C9_RoundTrip ==
    (lastLoad # Null /\ Parses(lastLoad.read)) =>
        SameSnapshot(lastLoad.got, lastLoad.wanted)

\* A snapshot with the analytics of a finished run and a test whose baseUrl is
\* undefined went through the file.
C9_Witness ==
    /\ lastLoad # Null /\ Parses(lastLoad.read)
    /\ lastLoad.got.history.analytics.totalRuns = 1
    /\ lastLoad.got # lastLoad.wanted

\* C10: after a crash, the restarted process holds the last snapshot whose
\* save completed.
C10_CrashRecovery ==
    lastLoad # Null => SameSnapshot(lastLoad.got, lastLoad.wanted)

\* C11: every operation that changes the snapshot calls saveState after its
\* last change: a request that has returned has left no change of its own
\* unserialized.
C11_SavedAfterLastMutation ==
    \A r \in Reqs : pc[r] = "done" => ~loc[r].dirty

\* C12: GET /state changes nothing: neither block of the route changes a field
\* of the snapshot or the state file, and the reply is the text of the
\* snapshot as it is, so two calls with no change in between reply the same.
C12_GetStateReadsOnly ==
    [][\A r \in Reqs :
        (pc[r] = "idle" /\ pc'[r] = "state") \/ (pc[r] = "state" /\ pc'[r] = "done") =>
            /\ system' = system
            /\ file' = file
            /\ pc'[r] = "done" => loc'[r].reply = Stringify(system)]_vars

\* GET /state has replied with a snapshot in which a run has finished.
C12_Witness ==
    \E r \in Reqs :
        /\ pc[r] = "done" /\ loc[r].reply # Null
        /\ loc[r].reply.history.analytics.totalRuns = 1

\* C13: when step k of a run fails, the result holds exactly k StepResults, the
\* first k-1 pass and the k-th fail, echoing the step's action and carrying a
\* non-empty error; no later step is executed and the run's status is fail.
C13_FailedStep ==
    \A i \in 1..Len(produced) :
        LET s == produced[i].result.automationResults.steps
            k == Len(s)
        IN  (\E j \in 1..k : s[j].status = "fail") =>
                /\ k <= Len(produced[i].steps)
                /\ \A j \in 1..(k - 1) : s[j].status = "pass"
                /\ s[k].status = "fail"
                /\ s[k].action = produced[i].steps[k].action
                /\ Has(s[k], "error") /\ s[k].error # ""
                /\ produced[i].result.status = "fail"

\* A run whose second step failed, and a run whose first step failed with a
\* second one left.
C13_Witness ==
    /\ \E i \in 1..Len(produced) :
        LET s == produced[i].result.automationResults.steps
        IN  Len(s) = 2 /\ s[2].status = "fail"
    /\ \E i \in 1..Len(produced) :
        LET s == produced[i].result.automationResults.steps
        IN  Len(s) = 1 /\ s[1].status = "fail" /\ Len(produced[i].steps) = 2

\* C14: when every step of a test that asserts performance has passed and the
\* collection of the metrics fails or times out, the run still passes, with
\* fcp = lcp = cls = 0 and network.failures = 1.
C14_MetricsFailureTolerated ==
    \A i \in 1..Len(produced) :
        produced[i].metricsFailed =>
            LET metrics == produced[i].result.automationResults.metrics
            IN  /\ produced[i].result.status = "pass"
                /\ metrics.performance = [fcp |-> 0, lcp |-> 0, cls |-> 0]
                /\ metrics.network.failures = 1

\* C15: a POST /test body that lacks automation.assertions is answered 400 and
\* leaves the orchestrator alone: no test without assertions is ever in one of
\* the four lists.
C15_InvalidRejected ==
    \A n \in {"pending", "running", "completed", "failed"} :
        \A i \in 1..Len(system.queue[n]) : Has(system.queue[n][i], "assertions")

C17_SaveFailurePropagates ==
    Cardinality({r \in Reqs : pc[r] = "replied500"}) = fails

\* The only request so far queued a test, the run finished, the save of the
\* end-of-run bookkeeping failed and the request was answered 500.
C17_Witness ==
    /\ pc[1] = "replied500" /\ pc[2] = "idle"
    /\ Len(produced) = 1

NextHang == Next \/ \E r \in Reqs : Hangs(r)

\* The backend may hang; every request that can go on does.
HangSpec == Init /\ [][NextHang]_vars /\ \A r \in Reqs : WF_vars(Progress(r))

\* C18: the configured timeouts are hard deadlines: a backend call that never
\* returns is cancelled and its run recorded as failed, so every run that
\* started eventually finishes.
C18_RunsFinish ==
    \A id \in 1..MaxReq :
        (id \in Range(started)) ~> (\E i \in 1..Len(produced) : produced[i].test = id)

\* C19: a run that failed outside the execution of a step (a backend that is
\* not initialized, a screenshot or a metrics collection that rejects) has
\* status error; a run one of whose steps failed has status fail.
C19_ErrorOutsideSteps ==
    \A i \in 1..Len(produced) :
        /\ produced[i].threw => produced[i].result.status = "error"
        /\ ~AllStepsPass(produced[i].result) => produced[i].result.status = "fail"

\* C20: the mutations of the snapshot are serialized: while one operation is
\* between its mutation and the end of its save, no other operation changes
\* the snapshot.
C20_Serialized ==
    [][(\E r \in Reqs : pc[r] \in {"mkdir", "write"}) => system' = system]_vars

\* C21: the phase follows setup -> running -> (analysis) -> cleanup -> setup:
\* it returns to setup from cleanup only, and it makes no other move.
C21_PhaseMachine ==
    [][system'.current.phase # system.current.phase =>
        <<system.current.phase, system'.current.phase>> \in
            { <<"setup", "running">>, <<"running", "analysis">>,
              <<"running", "cleanup">>, <<"analysis", "cleanup">>,
              <<"cleanup", "setup">> }]_vars

\* C22: processQueue called while the phase is not setup, or while `pending` is
\* empty, changes nothing, writes nothing and starts no run; otherwise it takes
\* exactly the head of `pending`, appends it to `running`, sets phase running
\* and the current test, and the snapshot is on file before the run starts.
C22_ProcessQueueFrame ==
    [][\A r \in Reqs :
        /\ (AtProcessQueue(pc[r]) /\ pc'[r] # pc[r]) =>
            IF system.current.phase # "setup" \/ system.queue.pending = <<>>
            THEN /\ system' = system
                 /\ file' = file
                 /\ started' = started
                 /\ pc'[r] = "done"
            ELSE LET head == Head(system.queue.pending) IN
                 /\ system'.queue.pending = Tail(system.queue.pending)
                 /\ system'.queue.running = Append(system.queue.running, head)
                 /\ system'.queue.completed = system.queue.completed
                 /\ system'.queue.failed = system.queue.failed
                 /\ system'.current =
                        [system.current EXCEPT !.phase = "running", !.test = head]
                 /\ system'.history = system.history
                 /\ file' = file
                 /\ pc'[r] = "mkdir" /\ loc'[r].cont = "runTest"
        /\ (pc[r] # "runTest" /\ pc'[r] = "runTest") =>
            /\ Parses(file')
            /\ loc'[r].test.id \in Ids(Parse(file').queue.running)
            /\ Parse(file').current.phase = "running"]_vars

\* Two tests were queued; one call of processQueue has returned while the
\* other's run is under way and a test is still pending.
C22_Witness ==
    /\ Len(enqueued) = 2
    /\ system.queue.pending # <<>>
    /\ \E r, q \in Reqs : pc[r] = "done" /\ pc[q] \in {"step", "visual", "metrics"}

\* The runs under way and the finished ones: the test's steps, the StepResults
\* recorded so far and the calls of executeStep made so far.
Runs ==
    {[steps |-> loc[r].test.steps, recorded |-> loc[r].result.automationResults.steps,
      calls |-> loc[r].calls, calling |-> pc[r] = "step"] :
        r \in {q \in Reqs : pc[q] \in {"step", "visual", "metrics", "finally"}}}
    \cup
    {[steps |-> produced[i].steps,
      recorded |-> produced[i].result.automationResults.steps,
      calls |-> produced[i].calls, calling |-> FALSE] : i \in 1..Len(produced)}

\* C23: the steps of a run execute one after the other in list order:
\* executeStep is called for step n+1 only when the StepResult of step n is
\* recorded, so the StepResults recorded are always a prefix of the test's
\* steps, with the same actions.
C23_StepsInOrder ==
    \A run \in Runs :
        /\ run.calls = [j \in 1..Len(run.calls) |-> j]
        /\ Len(run.recorded) <= Len(run.steps)
        /\ \A j \in 1..Len(run.recorded) : run.recorded[j].action = run.steps[j].action
        /\ Len(run.calls) = Len(run.recorded) + (IF run.calling THEN 1 ELSE 0)

\* executeStep is being called for the second step of a test, the first
\* step's result recorded.
C23_Witness ==
    \E run \in Runs : run.calling /\ Len(run.calls) = 2 /\ Len(run.recorded) = 1

\* C24: the scheduler retries nothing: in one run executeStep is called at
\* most once for a step, and a test is started and run at most once.
C24_NoRetry ==
    /\ \A run \in Runs :
        \A a, b \in 1..Len(run.calls) : run.calls[a] = run.calls[b] => a = b
    /\ \A a, b \in 1..Len(started) : started[a] = started[b] => a = b
    /\ \A a, b \in 1..Len(produced) : produced[a].test = produced[b].test => a = b

\* Two runs have finished, one of them on a failed step, and the configured
\* retry count is 3.
C24_Witness ==
    /\ Len(produced) = 2
    /\ \E i \in 1..Len(produced) : ~AllStepsPass(produced[i].result)
    /\ system.execution.retries.count = 3

\* The step lacks what its action needs: click, hover and scroll need a
\* target, type needs a target and a value.
MissingPrecondition(step) ==
    \/ step.action \in {"click", "hover", "scroll"} /\ ~Has(step, "target")
    \/ step.action = "type" /\ ~(Has(step, "target") /\ Has(step, "value"))

\* C25: a step that lacks what its action needs never passes and never
\* crashes the run: its StepResult is a fail with an error message.
C25_PreconditionFails ==
    \A run \in Runs :
        \A j \in 1..Len(run.recorded) :
            MissingPrecondition(run.steps[j]) =>
                /\ run.recorded[j].status = "fail"
                /\ Has(run.recorded[j], "error") /\ run.recorded[j].error # ""

PassedSteps(result) ==
    Cardinality({j \in 1..Len(result.automationResults.steps) :
                    result.automationResults.steps[j].status = "pass"})

\* C26: when the test asserts visuals, a screenshot is captured, stored and
\* analysed after each passed step and the analysis replaces the result's
\* visualAnalysis, which at the end is the output of the run's last analysis;
\* when the test does not, analyzeScreenshot is never called.
C26_VisualAnalysis ==
    \A i \in 1..Len(produced) :
        IF produced[i].asserts.visual
        THEN /\ ~produced[i].threw => produced[i].analyzed = PassedSteps(produced[i].result)
             /\ produced[i].analyzed > 0 =>
                    produced[i].result.visualAnalysis = analyzeScreenshot
        ELSE produced[i].analyzed = 0

\* C27: collectMetrics is called at most once in a run, and only when the test
\* asserts performance; when it does not, the result's metrics are the
\* all-zero bundle with empty console lists.
C27_MetricsOnce ==
    \A i \in 1..Len(produced) :
        /\ produced[i].collected <= 1
        /\ produced[i].collected = 1 => produced[i].asserts.performance
        /\ ~produced[i].asserts.performance =>
                produced[i].result.automationResults.metrics = ZeroMetrics

\* A run that collected its metrics and a run of a test that asserts no
\* performance, all its steps passed.
C27_Witness ==
    /\ \E i \in 1..Len(produced) : produced[i].collected = 1
    /\ \E i \in 1..Len(produced) :
        /\ ~produced[i].asserts.performance
        /\ produced[i].result.status = "pass"

\* C28: after every run, analytics.averageDuration is the mean of the
\* durations of the session results, the finished run's result among them.
C28_AverageDuration ==
    [][\A r \in Reqs :
        (pc[r] = "finally" /\ pc'[r] # "finally") =>
            LET results == system'.current.results IN
            /\ produced'[Len(produced')].result \in Range(results)
            /\ system'.history.analytics.averageDuration =
                    Quot(SumDurations(results), Len(results))]_vars

\* How many issues with the description the results passed to updateAnalytics
\* carried, and the count commonIssues keeps for it.
IssuesSeen(d) ==
    Cardinality({<<i, j>> \in (1..Len(produced)) \X (1..MaxIssues) :
        /\ j <= Len(produced[i].result.visualAnalysis.issues)
        /\ produced[i].result.visualAnalysis.issues[j].description = d})

IssuesCounted(d) ==
    LET common == system.history.analytics.commonIssues
        at == {a \in 1..Len(common) : common[a].type = d}
    IN  IF at = {} THEN 0 ELSE common[CHOOSE a \in at : TRUE].count

\* C29: commonIssues has at most one entry for a description, and the entry's
\* count is the number of issues with exactly that description in all the
\* results passed to updateAnalytics (so no entry goes and no count falls).
C29_CommonIssues ==
    LET common == system.history.analytics.commonIssues IN
    /\ \A a, b \in 1..Len(common) : common[a].type = common[b].type => a = b
    /\ \A a \in 1..Len(common) : common[a].type \in Descriptions /\ common[a].count >= 1
    /\ \A d \in Descriptions : IssuesCounted(d) = IssuesSeen(d)

\* Two descriptions are counted, one of them three times over two results.
C29_Witness ==
    /\ Len(system.history.analytics.commonIssues) = 2
    /\ \E d \in Descriptions : IssuesCounted(d) = 3
    /\ Len(produced) = 2

\* C30: the screenshot POST /screenshot appends carries an id and a timestamp
\* that the server assigned, whatever the request body holds.
C30_ServerAssigned ==
    \A i \in 1..Len(system.current.screenshots) :
        LET screenshot == system.current.screenshots[i] IN
        /\ screenshot.id.by = "server"
        /\ Has(screenshot, "timestamp") /\ screenshot.timestamp.by = "server"

\* C31: the navigation inside executeStep is attempted at most 3 times and
\* stops at the first success; when all 3 attempts fail, the step fails with
\* the error of the third attempt and its action is not performed; the page is
\* closed in every case.
C31_NavigationRetry ==
    \A i \in 1..Len(produced) :
        \A c \in 1..Len(produced[i].navs) :
            LET call == produced[i].navs[c]
                recorded == produced[i].result.automationResults.steps[c]
                succeeded == {a \in 1..3 : call.goto[a]}
            IN  /\ call.attempts <= 3
                /\ call.closed
                /\ IF succeeded # {}
                   THEN /\ call.attempts \in succeeded
                        /\ \A a \in succeeded : call.attempts <= a
                        /\ call.switched
                   ELSE /\ call.attempts = 3
                        /\ ~call.switched
                        /\ recorded.status = "fail"
                        /\ recorded.error = NavError[3]

\* In one run, a step whose navigation succeeded on the third attempt and a
\* step whose three attempts all failed.
C31_Witness ==
    \E i \in 1..Len(produced) :
        /\ Len(produced[i].navs) = 2
        /\ produced[i].navs[1].goto = <<FALSE, FALSE, TRUE>>
        /\ produced[i].navs[2].goto = <<FALSE, FALSE, FALSE>>

\* C32: analytics.totalRuns counts the finished runs, one for each, and always
\* equals |completed| + |failed| and the length of the session results.
C32_TotalRuns ==
    LET totalRuns == system.history.analytics.totalRuns IN
    /\ totalRuns = Len(produced)
    /\ totalRuns = Len(system.queue.completed) + Len(system.queue.failed)
    /\ totalRuns = Len(system.current.results)

\* C33: the three execution pointers agree in every state: the phase is
\* running exactly when there is a current test, and exactly when `running`
\* holds one test, the current one; in phase setup `running` is empty.
C33_PointersAgree ==
    LET current == system.current
        running == system.queue.running
    IN  /\ current.phase = "running" <=> current.test # Null
        /\ current.phase = "running" <=> (Len(running) = 1 /\ running[1] = current.test)
        /\ current.phase = "setup" => running = <<>>

\* A restarted process has loaded a snapshot in which a test is running and
\* an earlier one has finished.
C33_Witness ==
    /\ up /\ lastLoad # Null /\ Parses(lastLoad.read)
    /\ system.current.phase = "running"
    /\ Len(system.queue.completed) + Len(system.queue.failed) = 1

\* The process can be killed and is started again; every request that can go
\* on does.
CrashLiveSpec ==
    /\ Init \/ InitCold
    /\ [][NextCrash]_vars
    /\ WF_vars(Restart)
    /\ \A r \in Reqs : WF_vars(Progress(r))

\* C34: a process restarted from a snapshot in which a test was running still
\* makes progress: a test that is pending once a queueTest call after the
\* restart has saved and goes on to processQueue is eventually taken from
\* `pending` and executed, unless the process is killed again.
C34_RestartProgress ==
    \A id \in 1..MaxReq :
        (/\ up /\ lastLoad # Null
         /\ id \in Ids(system.queue.pending)
         /\ \E r \in Reqs : pc[r] = "processQueue")
            ~> (id \notin Ids(system.queue.pending) \/ ~up)

\* The id is in one of the four lists of the snapshot.
InLists(sys, id) ==
    \/ id \in Ids(sys.queue.pending) \/ id \in Ids(sys.queue.running)
    \/ id \in Ids(sys.queue.completed) \/ id \in Ids(sys.queue.failed)

\* C35: once loadState has returned, every test queueTest accepted while
\* initialize() was running is in one of the four lists of the snapshot in
\* memory, and, when no request is under way, of the snapshot in the file.
C35_AcceptedSurvivesStart ==
    (up /\ boot.stage = "loaded") =>
        \A id \in Range(enqueued) :
            /\ InLists(system, id)
            /\ (Quiet /\ Parses(file)) => InLists(Parse(file), id)
\* C36: a saveState that fails in processQueue after a test was taken from
\* `pending` does not wedge the scheduler: whenever no run is in progress the
\* phase is not "running" and no test is left in `running`, so a later
\* queueTest finds the scheduler idle.
C36_NotWedged ==
    (\A r \in Reqs : ~InRun(r)) =>
        /\ system.current.phase # "running"
        /\ system.queue.running = <<>>
\* C37: overlapping saves converge: once every operation has finished, the
\* state file holds the snapshot that is in memory, never an older one.
C37_SavesConverge == Quiet => file = Stringify(system)
\* The last step the run recorded is a failed one.
FailedAtStep(result) ==
    LET steps == result.automationResults.steps
    IN  steps # <<>> /\ steps[Len(steps)].status = "fail"

\* C38: when a step fails, the work after the steps is skipped: no further
\* step is called, collectMetrics is not called, nothing is captured or
\* analysed after the failing step, and the result keeps the metrics and the
\* visual analysis it had before the failing step.
C38_FailedStepSkipsRest ==
    \A i \in 1..Len(produced) :
        LET run == produced[i] IN
        FailedAtStep(run.result) =>
            /\ run.result.status = "fail"
            /\ Len(run.calls) = Len(run.result.automationResults.steps)
            /\ run.collected = 0
            /\ run.result.automationResults.metrics = ZeroMetrics
            /\ run.analyzed <= PassedSteps(run.result)
            /\ run.result.visualAnalysis =
                    IF run.analyzed = 0
                    THEN NewResult(build, run.result.id, [id |-> run.test]).visualAnalysis
                    ELSE analyzeScreenshot

\* A run of a test that asserts performance failed at its second step, after
\* a first step that passed.
C38_Witness ==
    \E i \in 1..Len(produced) :
        /\ FailedAtStep(produced[i].result)
        /\ produced[i].asserts.performance
        /\ PassedSteps(produced[i].result) = 1
\* C39: the queueTest call that found the scheduler idle resolves only once
\* the run it started has finished and the chained drain has found nothing
\* more to dequeue, the phase being "setup" and `pending` empty at that moment;
\* a queueTest call that reaches processQueue while a test is running resolves
\* there, without waiting for its test.
C39_IdleCallerWaits ==
    [][\A r \in Reqs :
        /\ (pc[r] \in {"finally", "drain"} /\ pc'[r] = "done") =>
                /\ system'.current.phase = "setup"
                /\ system'.queue.pending = <<>>
        /\ (pc[r] = "processQueue" /\ system.current.phase = "running"
                /\ pc'[r] # pc[r]) => pc'[r] = "done"]_vars
====
